---- MODULE Spec2Model ----
(***************************************************************************)
(* Model of rs.go: the generic containers Option[T] (package option) and   *)
(* Result[T, E] (package result) and their combinators.                    *)
(*                                                                         *)
(* Both containers are Go structs of pointers.  The model keeps the cells  *)
(* those pointers refer to in an explicit heap (one arena per pointee      *)
(* type, *T and *E), so that "populated", "dereference", "new instance"    *)
(* and "unchanged" mean what they mean in the code.  A method is an        *)
(* operator from the heap, the receiver and the arguments to an outcome:   *)
(* the heap after the call, the returned value, whether the call panicked  *)
(* (and with what), and the trace of the calls it made to its function     *)
(* argument.  The state machine is a caller that owns a set of Result and  *)
(* Option values and keeps calling constructors and methods on them.       *)
(***************************************************************************)
EXTENDS Naturals, Sequences, FiniteSets

\* ------------------------------------------------------------- bounds
\* Payloads of type T are 0..MaxVal.
MaxVal == 1
\* Values of type E are 0..MaxErr; 0 is the nil error interface.
MaxErr == 1
\* Cells allocated, over both heap arenas.
MaxCells == 3
\* Result and Option values the caller holds.
MaxHeld == 2

Vals == 0..MaxVal
NilErr == 0
Errs == 0..MaxErr
Msgs == {"m1", "m2"}

\* ------------------------------------------------------------- memory
\* The nil pointer; the cells of an arena have the addresses 1..Len.
Nil == 0
\* What the Go runtime panics with on *p when p is nil.
NilDeref == "invalid memory address or nil pointer dereference"

VARIABLES heap, rs, opts, last
vars == <<heap, rs, opts, last>>

\* A call that returns v, having made the calls cs to its function argument.
Return(h, v, cs) ==
  [h |-> h, ret |-> v, panicked |-> FALSE, msg |-> "", calls |-> cs]
\* A call that panics with msg.
Panic(h, m, cs) ==
  [h |-> h, ret |-> Nil, panicked |-> TRUE, msg |-> m, calls |-> cs]

\* &data for a T: a fresh cell holding a copy of data.
AllocT(h, v) == [h EXCEPT !.T = Append(@, v)]
\* &e for an E.
AllocE(h, e) == [h EXCEPT !.E = Append(@, e)]

\* ------------------------------------------------------------- option
Option(p) == [some |-> p]

IsSome(o) == o.some # Nil
IsNone(o) == o.some = Nil

Some(h, data) == Return(AllocT(h, data), Option(Len(h.T) + 1), <<>>)
None(h) == Return(h, Option(Nil), <<>>)

\* What a function of type func(T) Option[T] does: build Some(x) or None().
OptExprs == [k : {"Some"}, x : Vals] \cup [k : {"None"}, x : {0}]
RunOptFn(h, e) == IF e.k = "Some" THEN Some(h, e.x) ELSE None(h)

\* Mutant of OptAnd: the conventional "and", which yields the argument when
\* the receiver is present.
OptAndConventional(h, o, other) ==
  IF IsSome(o) THEN Return(h, other, <<>>) ELSE Return(h, o, <<>>)
OptAnd(h, o, other) ==
  IF IsSome(o) THEN Return(h, o, <<>>) ELSE Return(h, other, <<>>)

OptAndThen(h, o, fn) ==
  IF IsSome(o)
    THEN IF o.some = Nil
           THEN Panic(h, NilDeref, <<>>)
           ELSE LET v == h.T[o.some]
                    out == RunOptFn(h, fn[v])
                IN  [out EXCEPT !.calls = <<[arg |-> v, res |-> out.ret]>>]
    ELSE Return(h, o, <<>>)

OptExpect(h, o, m) ==
  IF IsNone(o)
    THEN Panic(h, m, <<>>)
    ELSE IF o.some = Nil THEN Panic(h, NilDeref, <<>>)
         ELSE Return(h, h.T[o.some], <<>>)

OptUnwrapMsg == "unwrapped a none"
OptUnwrap(h, o) ==
  LET e == IF IsNone(o) THEN OptExpect(h, o, OptUnwrapMsg) ELSE Return(h, Nil, <<>>)
  IN  IF e.panicked THEN e
      ELSE IF o.some = Nil THEN Panic(h, NilDeref, <<>>)
           ELSE Return(h, h.T[o.some], <<>>)

\* Option[E], as Result.Err builds it: Some over the *E arena.
SomeE(h, e) == Return(AllocE(h, e), Option(Len(h.E) + 1), <<>>)

\* ------------------------------------------------------------- result
Result(okp, errp) == [ok |-> okp, err |-> errp]

IsOk(r) == r.ok # Nil /\ r.err = Nil
IsErr(r) == r.ok = Nil /\ r.err # Nil

Ok(h, data) == Return(AllocT(h, data), Result(Len(h.T) + 1, Nil), <<>>)
\* Mutant of Err: a nil error leaves the err slot nil.
ErrDropsNil(h, e) ==
  IF e = NilErr
    THEN Return(h, [ok |-> Nil, err |-> Nil], <<>>)
    ELSE Return(AllocE(h, e), [ok |-> Nil, err |-> Len(h.E) + 1], <<>>)
Err(h, e) == Return(AllocE(h, e), Result(Nil, Len(h.E) + 1), <<>>)

\* Mutant of Match: the nil test inverted.
MatchInverted(h, data, e) == IF e = NilErr THEN Err(h, e) ELSE Ok(h, data)
Match(h, data, e) == IF e # NilErr THEN Err(h, e) ELSE Ok(h, data)

\* What a function of type func(T) Result[T, E] or func(E) Result[T, E]
\* does: build Ok(x) or Err(x).
ResExprs == [k : {"Ok"}, x : Vals] \cup [k : {"Err"}, x : Errs]
RunResFn(h, e) == IF e.k = "Ok" THEN Ok(h, e.x) ELSE Err(h, e.x)

\* Mutant of And: the branches swapped (the body of Or).
AndSwapped(h, r, res) ==
  IF IsOk(r) THEN Return(h, r, <<>>) ELSE Return(h, res, <<>>)
And(h, r, res) ==
  IF IsOk(r) THEN Return(h, res, <<>>) ELSE Return(h, r, <<>>)

\* Mutant of AndThen: guarded by !r.IsErr() instead of r.IsOk().
AndThenUnlessErr(h, r, fn) ==
  IF ~IsErr(r)
    THEN IF r.ok = Nil
           THEN Panic(h, NilDeref, <<>>)
           ELSE LET v == h.T[r.ok]
                    out == RunResFn(h, fn[v])
                IN  [out EXCEPT !.calls = <<[arg |-> v, res |-> out.ret]>>]
    ELSE Return(h, r, <<>>)
AndThen(h, r, fn) ==
  IF IsOk(r)
    THEN IF r.ok = Nil
           THEN Panic(h, NilDeref, <<>>)
           ELSE LET v == h.T[r.ok]
                    out == RunResFn(h, fn[v])
                IN  [out EXCEPT !.calls = <<[arg |-> v, res |-> out.ret]>>]
    ELSE Return(h, r, <<>>)

Or(h, r, res) ==
  IF IsOk(r) THEN Return(h, r, <<>>) ELSE Return(h, res, <<>>)

OrElse(h, r, fn) ==
  IF IsErr(r)
    THEN IF r.err = Nil
           THEN Panic(h, NilDeref, <<>>)
           ELSE LET e == h.E[r.err]
                    out == RunResFn(h, fn[e])
                IN  [out EXCEPT !.calls = <<[arg |-> e, res |-> out.ret]>>]
    ELSE Return(h, r, <<>>)

\* reflect.DeepEqual on two values of the payload type.
DeepEqual(a, b) == a = b

Contains(h, r, data) ==
  IF IsOk(r)
    THEN IF r.ok = Nil
           THEN Panic(h, NilDeref, <<>>)
           ELSE IF DeepEqual(h.T[r.ok], data)
                  THEN Return(h, TRUE, <<>>)
                  ELSE Return(h, FALSE, <<>>)
    ELSE Return(h, FALSE, <<>>)

\* Mutant of Map: fn is called but the receiver's cell is wrapped again.
MapWrapsOld(h, r, fn) ==
  IF IsOk(r)
    THEN IF r.ok = Nil
           THEN Panic(h, NilDeref, <<>>)
           ELSE LET v == h.T[r.ok]
                    op == fn[v]
                IN  Return(h, Result(r.ok, Nil), <<[arg |-> v, res |-> op]>>)
    ELSE Return(h, r, <<>>)
Map(h, r, fn) ==
  IF IsOk(r)
    THEN IF r.ok = Nil
           THEN Panic(h, NilDeref, <<>>)
           ELSE LET v == h.T[r.ok]
                    op == fn[v]
                IN  Return(AllocT(h, op), Result(Len(h.T) + 1, Nil),
                           <<[arg |-> v, res |-> op]>>)
    ELSE Return(h, r, <<>>)

\* Mutant of MapErr: fn's result is stored through the receiver's pointer.
MapErrInPlace(h, r, fn) ==
  IF IsErr(r)
    THEN IF r.err = Nil
           THEN Panic(h, NilDeref, <<>>)
           ELSE LET e == h.E[r.err]
                    op == fn[e]
                IN  Return([h EXCEPT !.E[r.err] = op], r,
                           <<[arg |-> e, res |-> op]>>)
    ELSE Return(h, r, <<>>)
MapErr(h, r, fn) ==
  IF IsErr(r)
    THEN IF r.err = Nil
           THEN Panic(h, NilDeref, <<>>)
           ELSE LET e == h.E[r.err]
                    op == fn[e]
                IN  Return(AllocE(h, op), Result(Nil, Len(h.E) + 1),
                           <<[arg |-> e, res |-> op]>>)
    ELSE Return(h, r, <<>>)

MapOr(h, r, def, fn) ==
  IF IsOk(r)
    THEN IF r.ok = Nil
           THEN Panic(h, NilDeref, <<>>)
           ELSE LET v == h.T[r.ok]
                IN  Return(h, fn[v], <<[arg |-> v, res |-> fn[v]]>>)
    ELSE Return(h, def, <<>>)

\* The method Result.Ok (the constructor of the same name is Ok above).
ResultOk(h, r) ==
  IF IsOk(r)
    THEN IF r.ok = Nil THEN Panic(h, NilDeref, <<>>) ELSE Some(h, h.T[r.ok])
    ELSE None(h)

\* Mutant of IsOkAnd: the predicate is evaluated a second time when it holds.
IsOkAndTwice(h, r, fn) ==
  IF IsOk(r)
    THEN IF r.ok = Nil
           THEN Panic(h, NilDeref, <<>>)
           ELSE LET v == h.T[r.ok]
                    c == [arg |-> v, res |-> fn[v]]
                IN  Return(h, fn[v], IF fn[v] THEN <<c, c>> ELSE <<c>>)
    ELSE Return(h, FALSE, <<>>)
IsOkAnd(h, r, fn) ==
  IF IsOk(r)
    THEN IF r.ok = Nil
           THEN Panic(h, NilDeref, <<>>)
           ELSE LET v == h.T[r.ok]
                IN  Return(h, fn[v], <<[arg |-> v, res |-> fn[v]]>>)
    ELSE Return(h, FALSE, <<>>)

\* Mutant of ResultErr: guarded by r.IsOk(), as Result.Ok is.
ResultErrChecksOk(h, r) ==
  IF IsOk(r)
    THEN IF r.err = Nil THEN Panic(h, NilDeref, <<>>) ELSE SomeE(h, h.E[r.err])
    ELSE None(h)
\* The method Result.Err.
ResultErr(h, r) ==
  IF IsErr(r)
    THEN IF r.err = Nil THEN Panic(h, NilDeref, <<>>) ELSE SomeE(h, h.E[r.err])
    ELSE None(h)

\* Mutant of Expect: panics with Unwrap's message whatever msg is.
ExpectFixedMsg(h, r, m) ==
  IF IsOk(r)
    THEN IF r.ok = Nil THEN Panic(h, NilDeref, <<>>)
         ELSE Return(h, h.T[r.ok], <<>>)
    ELSE Panic(h, "called Unwrap an on an error", <<>>)
Expect(h, r, m) ==
  IF IsOk(r)
    THEN IF r.ok = Nil THEN Panic(h, NilDeref, <<>>)
         ELSE Return(h, h.T[r.ok], <<>>)
    ELSE Panic(h, m, <<>>)

ExpectErr(h, r, m) ==
  IF ~IsErr(r)
    THEN Panic(h, m, <<>>)
    ELSE IF r.err = Nil THEN Panic(h, NilDeref, <<>>)
         ELSE Return(h, h.E[r.err], <<>>)

UnwrapMsg == "called Unwrap an on an error"
Unwrap(h, r) == Expect(h, r, UnwrapMsg)

UnwrapErrMsg == "called UnwrapErr an ok"
UnwrapErr(h, r) == ExpectErr(h, r, UnwrapErrMsg)

\* ------------------------------------------------------------- caller
\* The caller's view of a finished call: what was called on what, and what
\* came of it.
Call(op, recv, arg, out) ==
  [op |-> op, recv |-> recv, arg |-> arg, ret |-> out.ret,
   panicked |-> out.panicked, msg |-> out.msg, calls |-> out.calls]

Fits(out) == Len(out.h.T) + Len(out.h.E) <= MaxCells

\* A call whose return value is a Result[T, E] the caller keeps.
KeepResult(op, recv, arg, out) ==
  LET kept == IF out.panicked THEN rs ELSE rs \cup {out.ret}
  IN  /\ Fits(out)
      /\ Cardinality(kept) + Cardinality(opts) <= MaxHeld
      /\ heap' = out.h
      /\ rs' = kept
      /\ opts' = opts
      /\ last' = Call(op, recv, arg, out)

\* A call whose return value is an Option[T] the caller keeps.
KeepOption(op, recv, arg, out) ==
  LET kept == IF out.panicked THEN opts ELSE opts \cup {out.ret}
  IN  /\ Fits(out)
      /\ Cardinality(rs) + Cardinality(kept) <= MaxHeld
      /\ heap' = out.h
      /\ rs' = rs
      /\ opts' = kept
      /\ last' = Call(op, recv, arg, out)

\* A call that returns a plain value (a payload, a bool, an Option[E]).
KeepValue(op, recv, arg, out) ==
  /\ Fits(out)
  /\ heap' = out.h
  /\ rs' = rs
  /\ opts' = opts
  /\ last' = Call(op, recv, arg, out)

\* The functions the caller passes to the combinators: tables over the
\* payload domain.  func(T) T: the identity, the successor (wrapping at the
\* end of the domain) and the constant functions; likewise func(E) E.
IdOn(S) == [x \in S |-> x]
SuccOn(S, max) == [x \in S |-> IF x = max THEN 0 ELSE x + 1]
FnsTT == {IdOn(Vals), SuccOn(Vals, MaxVal)} \cup {[x \in Vals |-> c] : c \in Vals}
FnsEE == {IdOn(Errs), SuccOn(Errs, MaxErr)} \cup {[x \in Errs |-> c] : c \in Errs}
\* func(T) bool: the tests x = c and x # c.
FnsTB ==
  {[x \in Vals |-> x = c] : c \in Vals} \cup {[x \in Vals |-> x # c] : c \in Vals}
\* func(T) Result[T, E]: succeed with f(x), fail with e, or succeed on 0 only.
FnsTR ==
  {[x \in Vals |-> [k |-> "Ok", x |-> f[x]]] : f \in {IdOn(Vals), SuccOn(Vals, MaxVal)}}
    \cup {[x \in Vals |-> [k |-> "Err", x |-> e]] : e \in Errs}
    \cup {[x \in Vals |-> IF x = 0 THEN [k |-> "Ok", x |-> x]
                                   ELSE [k |-> "Err", x |-> MaxErr]]}
\* func(E) Result[T, E]: recover with c, or fail again with g(e).
FnsER ==
  {[e \in Errs |-> [k |-> "Ok", x |-> c]] : c \in Vals}
    \cup {[e \in Errs |-> [k |-> "Err", x |-> g[e]]] :
            g \in {IdOn(Errs), SuccOn(Errs, MaxErr)}}
\* func(T) Option[T]: Some(f(x)), None, or Some on 0 only.
FnsTO ==
  {[x \in Vals |-> [k |-> "Some", x |-> f[x]]] : f \in {IdOn(Vals), SuccOn(Vals, MaxVal)}}
    \cup {[x \in Vals |-> [k |-> "None", x |-> 0]]}
    \cup {[x \in Vals |-> IF x = 0 THEN [k |-> "Some", x |-> x]
                                   ELSE [k |-> "None", x |-> 0]]}

Init ==
  /\ heap = [T |-> <<>>, E |-> <<>>]
  /\ rs = {}
  /\ opts = {}
  /\ last = [op |-> "none"]

\* var r Result[T, E]: the zero value of the struct, both slots nil.
DoZero == KeepResult("Zero", Nil, Nil, Return(heap, Result(Nil, Nil), <<>>))

DoOk == \E v \in Vals : KeepResult("Ok", Nil, v, Ok(heap, v))
DoErr == \E e \in Errs : KeepResult("Err", Nil, e, Err(heap, e))
DoMatch ==
  \E v \in Vals, e \in Errs :
    KeepResult("Match", Nil, <<v, e>>, Match(heap, v, e))

DoAnd == \E r \in rs, res \in rs : KeepResult("And", r, res, And(heap, r, res))
DoAndThen ==
  \E r \in rs, fn \in FnsTR :
    KeepResult("AndThen", r, fn, AndThen(heap, r, fn))
DoOr == \E r \in rs, res \in rs : KeepResult("Or", r, res, Or(heap, r, res))
DoOrElse ==
  \E r \in rs, fn \in FnsER :
    KeepResult("OrElse", r, fn, OrElse(heap, r, fn))
DoContains ==
  \E r \in rs, v \in Vals : KeepValue("Contains", r, v, Contains(heap, r, v))
DoMap ==
  \E r \in rs, fn \in FnsTT : KeepResult("Map", r, fn, Map(heap, r, fn))
DoMapErr ==
  \E r \in rs, fn \in FnsEE :
    KeepResult("MapErr", r, fn, MapErr(heap, r, fn))
DoMapOr ==
  \E r \in rs, def \in Vals, fn \in FnsTT :
    KeepValue("MapOr", r, [def |-> def, fn |-> fn], MapOr(heap, r, def, fn))
DoResultOk == \E r \in rs : KeepOption("ResultOk", r, Nil, ResultOk(heap, r))
DoIsOk == \E r \in rs : KeepValue("IsOk", r, Nil, Return(heap, IsOk(r), <<>>))
DoIsOkAnd ==
  \E r \in rs, fn \in FnsTB :
    KeepValue("IsOkAnd", r, fn, IsOkAnd(heap, r, fn))
DoIsErr == \E r \in rs : KeepValue("IsErr", r, Nil, Return(heap, IsErr(r), <<>>))
DoResultErr == \E r \in rs : KeepValue("ResultErr", r, Nil, ResultErr(heap, r))
DoExpect ==
  \E r \in rs, m \in Msgs : KeepValue("Expect", r, m, Expect(heap, r, m))
DoExpectErr ==
  \E r \in rs, m \in Msgs : KeepValue("ExpectErr", r, m, ExpectErr(heap, r, m))
DoUnwrap == \E r \in rs : KeepValue("Unwrap", r, UnwrapMsg, Unwrap(heap, r))
DoUnwrapErr ==
  \E r \in rs : KeepValue("UnwrapErr", r, UnwrapErrMsg, UnwrapErr(heap, r))

DoSome == \E v \in Vals : KeepOption("Some", Nil, v, Some(heap, v))
DoNone == KeepOption("None", Nil, Nil, None(heap))
DoOptAnd ==
  \E o \in opts, other \in opts :
    KeepOption("OptAnd", o, other, OptAnd(heap, o, other))
DoOptAndThen ==
  \E o \in opts, fn \in FnsTO :
    KeepOption("OptAndThen", o, fn, OptAndThen(heap, o, fn))
DoIsSome ==
  \E o \in opts : KeepValue("IsSome", o, Nil, Return(heap, IsSome(o), <<>>))
DoIsNone ==
  \E o \in opts : KeepValue("IsNone", o, Nil, Return(heap, IsNone(o), <<>>))
DoOptExpect ==
  \E o \in opts, m \in Msgs :
    KeepValue("OptExpect", o, m, OptExpect(heap, o, m))
DoOptUnwrap ==
  \E o \in opts : KeepValue("OptUnwrap", o, OptUnwrapMsg, OptUnwrap(heap, o))

Next ==
  \/ DoOk \/ DoErr \/ DoMatch
  \/ DoAnd \/ DoAndThen \/ DoOr \/ DoOrElse \/ DoContains
  \/ DoMap \/ DoMapErr \/ DoMapOr
  \/ DoResultOk \/ DoIsOk \/ DoIsOkAnd \/ DoIsErr \/ DoResultErr
  \/ DoExpect \/ DoExpectErr \/ DoUnwrap \/ DoUnwrapErr
  \/ DoSome \/ DoNone \/ DoOptAnd \/ DoOptAndThen
  \/ DoIsSome \/ DoIsNone \/ DoOptExpect \/ DoOptUnwrap

\* Callers that build every Result with Ok, Err or Match.
Spec == Init /\ [][Next]_vars

\* Callers that also declare Results without constructing them.
NextZero == Next \/ DoZero
SpecZero == Init /\ [][NextZero]_vars

\* ------------------------------------------------------------- claims
\* The payload a populated slot holds.
OkPayload(r) == heap.T[r.ok]
ErrPayload(r) == heap.E[r.err]

\* C1: every Result the caller holds, whether built by Ok, Err or Match or
\* returned by a chain of combinators, answers exactly one of IsOk and IsErr
\* with true, and has exactly one of its two slots populated.
C1_ExactlyOneChannel ==
  \A r \in rs :
    /\ IsOk(r) # IsErr(r)
    /\ (r.ok # Nil) # (r.err # Nil)
\* A combinator has just returned, and the caller holds a success and a
\* failure.
C1_Witness ==
  /\ last.op \in {"AndThen", "OrElse", "Map", "MapErr", "And", "Or"}
  /\ \E r \in rs : IsOk(r)
  /\ \E r \in rs : IsErr(r)

\* C2: Result.Expect returns the success payload of a success and panics
\* with msg otherwise; Result.ExpectErr returns the failure payload of a
\* failure and panics with msg otherwise; Option.Expect returns the value of
\* a present Option and panics with msg on an absent one.
C2_ExpectAbortsExactlyOnMismatch ==
  /\ last.op = "Expect" =>
       IF IsOk(last.recv)
         THEN ~last.panicked /\ last.ret = OkPayload(last.recv)
         ELSE last.panicked /\ last.msg = last.arg
  /\ last.op = "ExpectErr" =>
       IF IsErr(last.recv)
         THEN ~last.panicked /\ last.ret = ErrPayload(last.recv)
         ELSE last.panicked /\ last.msg = last.arg
  /\ last.op = "OptExpect" =>
       IF IsSome(last.recv)
         THEN ~last.panicked /\ last.ret = heap.T[last.recv.some]
         ELSE last.panicked /\ last.msg = last.arg
\* ExpectErr("m2") was called on a success and panicked with "m2".
C2_Witness ==
  /\ last.op = "ExpectErr"
  /\ IsOk(last.recv)
  /\ last.panicked
  /\ last.msg = "m2"

\* C3: the constructors and every method outside the Expect / Unwrap family
\* return normally on every Result and Option value, the zero value of the
\* struct included.
NonAborting ==
  {"Ok", "Err", "Match", "Zero", "And", "AndThen", "Or", "OrElse", "Contains",
   "Map", "MapErr", "MapOr", "ResultOk", "ResultErr", "IsOk", "IsOkAnd",
   "IsErr", "Some", "None", "OptAnd", "OptAndThen", "IsSome", "IsNone"}
C3_OnlyExpectFamilyAborts == last.op \in NonAborting => ~last.panicked
\* AndThen was called on the zero value (neither slot populated) and
\* returned it.
C3_Witness ==
  /\ last.op = "AndThen"
  /\ last.recv = Result(Nil, Nil)
  /\ ~last.panicked
  /\ last.ret = last.recv

\* C4: Option.And returns the receiver when the receiver is present and the
\* argument when the receiver is absent.
C4_OptionAndFirstPresentWins ==
  last.op = "OptAnd" =>
    /\ ~last.panicked
    /\ last.ret = (IF IsSome(last.recv) THEN last.recv ELSE last.arg)
\* And was called on a present receiver with a different argument.
C4_Witness ==
  /\ last.op = "OptAnd"
  /\ IsSome(last.recv)
  /\ last.arg # last.recv
  /\ last.ret = last.recv

\* C5: for a failure r, r.And(r2) is r itself, and applying And(r2) to it
\* again gives the same Result; for a success r, r.And(r2) is r2.
C5_AndIdempotentOnFailure ==
  last.op = "And" =>
    IF IsErr(last.recv)
      THEN /\ last.ret = last.recv
           /\ And(heap, last.ret, last.arg).ret = last.ret
      ELSE IsOk(last.recv) => last.ret = last.arg
\* And was called on a failure with a success as its argument.
C5_Witness ==
  /\ last.op = "And"
  /\ IsErr(last.recv)
  /\ IsOk(last.arg)

\* C6: Map(fn) on a success with payload v returns a success with payload
\* fn(v); on a failure it returns the receiver, still a failure with the
\* same error, on which Unwrap panics.
C6_MapAppliesFnToSuccess ==
  last.op = "Map" =>
    /\ ~last.panicked
    /\ IsOk(last.recv) =>
         /\ IsOk(last.ret)
         /\ OkPayload(last.ret) = last.arg[OkPayload(last.recv)]
    /\ IsErr(last.recv) =>
         /\ last.ret = last.recv
         /\ last.calls = <<>>
         /\ Unwrap(heap, last.ret).panicked
\* Map(successor) was called on Ok(0) and returned a success holding 1.
C6_Witness ==
  /\ last.op = "Map"
  /\ IsOk(last.recv)
  /\ OkPayload(last.recv) = 0
  /\ last.arg = SuccOn(Vals, MaxVal)
  /\ OkPayload(last.ret) = 1

\* C7: Match(data, e) is a failure holding e when e is not nil and a success
\* holding data when e is nil, and either way exactly one of IsOk and IsErr.
C7_MatchFollowsError ==
  last.op = "Match" =>
    /\ ~last.panicked
    /\ IsOk(last.ret) # IsErr(last.ret)
    /\ IF last.arg[2] # NilErr
         THEN IsErr(last.ret) /\ ErrPayload(last.ret) = last.arg[2]
         ELSE IsOk(last.ret) /\ OkPayload(last.ret) = last.arg[1]
\* Match was called with a non-nil error.
C7_Witness ==
  /\ last.op = "Match"
  /\ last.arg[2] # NilErr
  /\ IsErr(last.ret)

\* C8: r.Ok() is present, with the success payload, exactly when r is a
\* success; r.Err() is present, with the failure payload, exactly when r is
\* a failure; of every Result the caller built, exactly one of the two is
\* present.
C8_ProjectionsComplementary ==
  /\ last.op = "ResultOk" =>
       /\ ~last.panicked
       /\ IsSome(last.ret) <=> IsOk(last.recv)
       /\ IsOk(last.recv) => heap.T[last.ret.some] = OkPayload(last.recv)
  /\ last.op = "ResultErr" =>
       /\ ~last.panicked
       /\ IsSome(last.ret) <=> IsErr(last.recv)
       /\ IsErr(last.recv) => heap.E[last.ret.some] = ErrPayload(last.recv)
  /\ \A r \in rs :
       LET o == ResultOk(heap, r)
           e == ResultErr(heap, r)
       IN  /\ ~o.panicked
           /\ ~e.panicked
           /\ IsSome(o.ret) # IsSome(e.ret)
\* Err() was called on a failure and returned a present Option.
C8_Witness ==
  /\ last.op = "ResultErr"
  /\ IsErr(last.recv)
  /\ IsSome(last.ret)

\* C9: a combinator calls its function argument exactly once when the
\* receiver is in the channel it acts on, and not at all otherwise.
OnOk == {"AndThen", "Map", "MapOr", "IsOkAnd"}
OnErr == {"OrElse", "MapErr"}
C9_FnCalledAtMostOnce ==
  /\ last.op \in OnOk =>
       Len(last.calls) = (IF IsOk(last.recv) THEN 1 ELSE 0)
  /\ last.op \in OnErr =>
       Len(last.calls) = (IF IsErr(last.recv) THEN 1 ELSE 0)
  /\ last.op = "OptAndThen" =>
       Len(last.calls) = (IF IsSome(last.recv) THEN 1 ELSE 0)
\* IsOkAnd was called on a success and called its predicate on the payload.
C9_Witness ==
  /\ last.op = "IsOkAnd"
  /\ IsOk(last.recv)
  /\ Len(last.calls) = 1
  /\ last.calls[1].arg = OkPayload(last.recv)

\* C10: no call changes a cell that existed before it, and the caller's
\* Results and Options are after the call what they were before it: same
\* slots, same payloads.
Preserved(old, new) ==
  \A a \in DOMAIN old : a \in DOMAIN new /\ new[a] = old[a]
C10_Step ==
  /\ Preserved(heap.T, heap'.T)
  /\ Preserved(heap.E, heap'.E)
  /\ rs \subseteq rs'
  /\ opts \subseteq opts'
C10_NoMutation == [][C10_Step]_vars
\* Map was called on a success and the receiver still holds a payload other
\* than the one Map stored.
C10_Witness ==
  /\ last.op = "Map"
  /\ IsOk(last.recv)
  /\ last.recv \in rs
  /\ OkPayload(last.recv) # OkPayload(last.ret)

====
